---- MODULE Spec2Model ----
(***************************************************************************)
(* Model of StreamDeckDriver (src/driver.py): the key index mapping, the   *)
(* screen blanking state machine, the per-key style resolution, the render *)
(* cache, and the two threads that enter the driver: the main loop calling *)
(* refresh() and the device's reader thread calling the key callback.      *)
(***************************************************************************)
EXTENDS Integers, Sequences, FiniteSets, TLC

(* ------------------------------ bounds --------------------------------- *)

\* Largest row and column count of the layouts the mapping is checked on.
MaxRows == 3
MaxCols == 3
\* The seconds since the last recorded press are counted up to here; every
\* timeout of the model is below it.
MaxIdle == 2
\* the longest word handed to the text wrapping
MaxWord == 5

(* ----------------------- key index mapping ----------------------------- *)

Rotations == {0, 90, 180, 270}

\* int(a / b) of two non-negative ints.
IntDiv(a, b) == a \div b

v2p_rot90_unmirrored(rows, cols, virtual_key) ==
    (cols * (virtual_key % rows)) + IntDiv(virtual_key, rows)

\* rotation == 90 branch of __virtual_to_physical
v2p_rot90(rows, cols, virtual_key) ==
    LET whichrow == (rows - 1) - (virtual_key % rows)
        whichcol == IntDiv(virtual_key, rows)
    IN  (cols * whichrow) + whichcol

v2p_rot270_unmirrored(rows, cols, virtual_key) ==
    (cols * (virtual_key % rows)) + IntDiv(virtual_key, rows)

\* rotation == 270 (else) branch of __virtual_to_physical
v2p_rot270(rows, cols, virtual_key) ==
    LET whichrow == virtual_key % rows
        whichcol == (cols - 1) - IntDiv(virtual_key, rows)
    IN  (cols * whichrow) + whichcol

\* key_count() of a deck with this key_layout()
key_count(rows, cols) == rows * cols

virtual_to_physical(rot, rows, cols, virtual_key) ==
    IF rot = 0 THEN virtual_key
    ELSE IF rot = 90 THEN v2p_rot90(rows, cols, virtual_key)
    ELSE IF rot = 180 THEN (key_count(rows, cols) - 1) - virtual_key
    ELSE v2p_rot270(rows, cols, virtual_key)

physical_to_virtual(rot, rows, cols, physical_key) ==
    IF rot = 0 THEN physical_key
    ELSE IF rot = 90 THEN
        LET whichrow == IntDiv(physical_key, cols)
            whichcol == physical_key % cols
        IN  ((rows - 1) - whichrow) + (rows * whichcol)
    ELSE IF rot = 180 THEN (key_count(rows, cols) - 1) - physical_key
    ELSE
        LET whichrow == IntDiv(physical_key, cols)
            whichcol == physical_key % cols
        IN  whichrow + (((cols - 1) - whichcol) * rows)

(* ------------------------------ state ---------------------------------- *)

VARIABLES
    \* configuration, fixed by the constructor and the configuration file
    rotation, layout, timeout, brightness_quirk, brightness, entities,
    \* which write-only parts of the state (the render cache, the images on the
    \* device) this run records
    observe,
    \* driver fields: self.__buttons, self.__states, self.__images, self.__blanked
    buttons, states, images, blanked,
    \* time.time() - self.__lastbutton, in whole seconds
    idle,
    \* the device: hardware brightness and the image shown on each physical key
    deck_brightness, deck_images,
    \* the remote switch source: the state a read of each switch returns
    remote,
    \* self.__closed, and the device calls close() has made
    closed, deck_calls,
    \* control state of the two threads and their locals
    pc, cache_only, loop_i, press, upd,
    \* history of the press callback in progress
    cb,
    \* the mapping specification's input and results
    map_key, map_physical, map_virtual,
    \* the render cache specification's two requests and the second one's result
    render,
    \* the device lock specification: the lock, the device call each thread is
    \* inside and the device calls each thread has still to make
    lk,
    \* the constructor specification: the constructor's position, its rotation
    \* argument, whether the key callback is registered with the device, the
    \* fields assigned so far and how a callback during construction ended
    new,
    \* the text wrapping specification: the word, the line length, the two
    \* halves of a split and the lines returned
    wrap

config_vars == <<rotation, layout, timeout, brightness_quirk, brightness, entities, observe>>
driver_vars == <<buttons, states, images, blanked, idle>>
deck_vars   == <<deck_brightness, deck_images>>
close_vars  == <<closed, deck_calls>>
thread_vars == <<pc, cache_only, loop_i, press, upd>>
map_vars    == <<map_key, map_physical, map_virtual>>
\* the variables of the specifications of single functions
side_vars   == <<map_vars, render, lk, new, wrap>>

vars == <<config_vars, driver_vars, deck_vars, remote, close_vars, thread_vars, cb,
         side_vars>>

Rows == layout[1]
Cols == layout[2]
KeyCount == key_count(Rows, Cols)

Threads == {"main", "cb"}

(* --------------------------- configuration ----------------------------- *)

\* brightness: int = 30 (default of the constructor)
DefaultBrightness == 30

\* The key layouts (rows, cols) of the decks the driver is run on.
DeckLayouts == {<<2, 1>>}
\* The rotations the driver is constructed with (already normalised).
DriverRotations == {90}

\* The runs of the driver: the screen timeout (<= 0 disables blanking), whether
\* the deck has the brightness quirk, the buttons that buttonfactory makes of the
\* configured entities ("HomeAssistantButton": a remotely backed switch,
\* "BlankButton": a placeholder without icon hint, "BlankButtonImage": a
\* placeholder with an "image:" icon hint), and what the run records. The render cache and the
\* device's images are written by the driver and never read back into a decision,
\* so a run that does not record one of them has the same driver behaviour.
DriverRuns ==
    { [timeout |-> 1,  quirk |-> TRUE,  list |-> <<"HomeAssistantButton">>,
       observe |-> {}],
      [timeout |-> 1,  quirk |-> TRUE,  list |-> <<"BlankButton", "HomeAssistantButton">>,
       observe |-> {}],
      [timeout |-> 1,  quirk |-> FALSE, list |-> <<"HomeAssistantButton", "BlankButtonImage">>,
       observe |-> {}],
      [timeout |-> 0,  quirk |-> TRUE,  list |-> <<"HomeAssistantButton">>,
       observe |-> {"cache"}],
      [timeout |-> -1, quirk |-> FALSE, list |-> <<"BlankButtonImage", "HomeAssistantButton">>,
       observe |-> {"deck"}] }

(* ------------------------------ buttons -------------------------------- *)

\* Python's True, False and None
PyValues == {"True", "False", "None"}
Truthy(v) == v = "True"
PyNot(v) == IF Truthy(v) THEN "False" ELSE "True"

IsBlankButton(kind) == kind \in {"BlankButton", "BlankButtonImage"}

InRange(virtual_key) == virtual_key >= 0 /\ virtual_key < Len(buttons)

\* The ways a request to the remote source fails: no answer in time, a status
\* that is not 2xx, a body that is not the expected JSON, the state of another
\* entity.
RemoteFailures == {"timeout", "non2xx", "malformed", "mismatch"}

\* The answers the remote source may give to a read of a switch whose state is
\* v, None standing for a source that fails.
responses(v) ==
    IF v = "None" THEN RemoteFailures ELSE {IF Truthy(v) THEN "on" ELSE "off"}

state_getter_uncaught(response) ==
    IF response \in {"timeout", "non2xx", "malformed"} THEN "Raise"
    ELSE IF response = "mismatch" THEN "None"
    ELSE IF response = "on" THEN "True" ELSE "False"

\* HomeAssistantButton.state (getter): every exception of the request and of
\* the parsing is caught and gives None, as does the state of another entity.
\* "Raise" would stand for an exception that leaves the getter.
state_getter(response) ==
    IF response \in {"timeout", "non2xx", "malformed"} THEN "None"
    ELSE IF response = "mismatch" THEN "None"
    ELSE IF response = "on" THEN "True" ELSE "False"

\* The answers a read of the button on a key may get (a placeholder asks
\* nobody).
button_responses(virtual_key) ==
    IF IsBlankButton(buttons[virtual_key + 1]) THEN {"local"}
    ELSE responses(remote[virtual_key])

\* BlankButton.state: False. HomeAssistantButton.state: the getter's result.
button_state(virtual_key, response) ==
    IF IsBlankButton(buttons[virtual_key + 1]) THEN "False" ELSE state_getter(response)

\* Button.label: the entity of a switch (a friendly name sent by the remote
\* source is not modelled)
button_label(virtual_key) == "switch." \o ToString(virtual_key)

\* self.__states.get(virtual_key, None)
states_get(virtual_key) ==
    IF virtual_key \in DOMAIN states THEN states[virtual_key] ELSE "None"

\* self.__states[virtual_key] = value
states_set(virtual_key, value) ==
    [k \in (DOMAIN states) \cup {virtual_key} |->
        IF k = virtual_key THEN value ELSE states[k]]

(* --------------------------- key style --------------------------------- *)

valid_key(virtual_key) ==
    ~(virtual_key < 0
      \/ virtual_key >= Len(buttons)
      \/ IsBlankButton(buttons[virtual_key + 1]))

\* The style forced while blanked on a deck with the brightness quirk.
quirk_style == [icon |-> "Blank.png", label |-> "None", color |-> "#000000"]

\* The style of a key without a registered button.
blank_style(virtual_key) ==
    LET button_image ==
            IF InRange(virtual_key) /\ buttons[virtual_key + 1] = "BlankButtonImage"
            THEN "image" ELSE "None"
    IN  [icon  |-> IF button_image # "None" THEN button_image ELSE "Blank.png",
         label |-> "None",
         color |-> "#555555"]

button_style_unknown_on(virtual_key, state) ==
    [icon  |-> IF state # "False" THEN "On.png" ELSE "Off.png",
     label |-> button_label(virtual_key),
     color |-> IF state # "False" THEN "#FFFFFF" ELSE "#777777"]

\* The style of a registered button in the given state.
button_style(virtual_key, state) ==
    [icon  |-> IF Truthy(state) THEN "On.png" ELSE "Off.png",
     label |-> button_label(virtual_key),
     color |-> IF Truthy(state) THEN "#FFFFFF" ELSE "#777777"]

\* str() of an optional label inside an f-string: <<>> stands for None, <<text>>
\* for a text.
py_str(label) == IF label = <<>> THEN "None" ELSE label[1]

\* cache_key of __render_key_image:
\* f"{icon_filename}-{icon_color}-{label_text}-{self.__rotation}"
cache_key_of(icon, color, label, rot) ==
    icon \o "-" \o color \o "-" \o py_str(label) \o "-" \o ToString(rot)

\* The cache key of a key style, whose label "None" stands for None.
cache_key(style) ==
    cache_key_of(style.icon, style.color,
                 IF style.label = "None" THEN <<>> ELSE <<style.label>>, rotation)

(* --------------------------- screen timeout ---------------------------- *)

refresh_timed_out_unguarded == timeout < idle

\* (self.__lastbutton + self.__timeout) < time.time(), with idle standing for
\* time.time() - self.__lastbutton.
refresh_timed_out == timeout > 0 /\ timeout < idle

press_timed_out == timeout > 0 /\ timeout < idle

(* ------------------------------ locals --------------------------------- *)

\* What the press callback in progress has done so far.
\*   path    : "wake" or "toggle" once the callback has chosen
\*   due     : the timeout was enabled and had elapsed when the callback started
\*   blanked : self.__blanked when the callback started
\*   button  : the pressed key had a button when the callback started
\*   setter  : its calls of a button's state setter (key, value, service posted)
\*   reads   : the keys whose button state it read inside __update_key_image
\*   touched : the keys of self.__states it assigned
\*   writes  : its set_key_image calls (physical key, style)
\*   stamped : it has assigned self.__lastbutton
no_press ==
    [path |-> "none", due |-> FALSE, blanked |-> FALSE, button |-> FALSE,
     setter |-> <<>>, reads |-> {}, touched |-> {}, writes |-> <<>>, stamped |-> FALSE]

\* The locals of __update_key_image.
no_update ==
    [key |-> 0, cached_only |-> FALSE, branch |-> "none", fetched |-> FALSE,
     state |-> "None", style |-> quirk_style]

\* The arguments and locals of __key_change_callback: the deck and the pressed
\* flag of the last event, and of a press the key and the state read.
no_key == [deck |-> "own", pressed |-> FALSE, physical |-> 0, virtual |-> 0,
           read |-> "None"]

\* No key mapped yet.
map_idle == map_key = -1 /\ map_physical = -1 /\ map_virtual = -1

\* No render request made.
no_render == [pc |-> "none", a |-> <<>>, b |-> <<>>, hit |-> FALSE]

\* The device lock free, no thread inside a device call or a driver operation.
no_lock ==
    [owner |-> "none", count |-> 0, closed |-> FALSE,
     inside |-> [t \in {"main", "cb"} |-> "none"],
     prog |-> [t \in {"main", "cb"} |-> <<>>]]

\* The fields the constructor assigns before it registers the key callback,
\* and all its fields.
EarlyFields ==
    {"brightness_quirk", "deck", "buttons", "states", "images", "height", "font",
     "icon_colors", "icon_images", "closed", "timeout", "blanked", "lastbutton",
     "rotation"}
DriverFields == EarlyFields \cup {"brightness", "mdi_mapping", "mdi_font"}

\* The constructor has returned and registered the key callback.
constructed == [pc |-> "done", arg |-> 0, registered |-> TRUE,
                assigned |-> DriverFields, callback |-> "none"]

\* No label is being wrapped.
no_wrap == [pc |-> "none", word |-> <<>>, width |-> 0, halves |-> <<>>, lines |-> <<>>]

(* ------------------------------- Init ---------------------------------- *)

\* The state when StreamDeckDriver.__init__ has returned: no buttons yet, every
\* key drawn blank by the constructor's refresh, the press time just recorded.
Init ==
    /\ rotation \in DriverRotations
    /\ layout \in DeckLayouts
    /\ \E run \in DriverRuns :
        /\ timeout = run.timeout
        /\ brightness_quirk = run.quirk
        /\ entities = run.list
        /\ observe = run.observe
    /\ brightness = DefaultBrightness
    /\ buttons = <<>>
    /\ states = <<>>
    /\ images = {cache_key_of("Blank.png", "#555555", <<>>, rotation)}
    /\ blanked = FALSE
    /\ idle = 0
    /\ deck_brightness = DefaultBrightness
    /\ deck_images = [p \in 0..(key_count(layout[1], layout[2]) - 1) |->
                        [icon |-> "Blank.png", label |-> "None", color |-> "#555555"]]
    /\ remote = <<>>
    /\ closed = FALSE
    /\ deck_calls = <<>>
    /\ pc = [t \in Threads |-> IF t = "main" THEN "add_buttons" ELSE "idle"]
    /\ cache_only = FALSE
    /\ loop_i = [t \in Threads |-> 0]
    /\ press = no_key
    /\ upd = [t \in Threads |-> no_update]
    /\ cb = no_press
    /\ map_idle
    /\ render = no_render
    /\ lk = no_lock
    /\ new = constructed
    /\ wrap = no_wrap

\* The process is running: no exception has left the main loop, and close() has
\* not returned.
Running == pc["main"] \notin {"crashed", "closed"}

(* ----------------------- __update_key_image ---------------------------- *)

\* Thread t calls __update_key_image(virtual_key, cached_only=cached).
call_update(t, virtual_key, cached) ==
    /\ pc' = [pc EXCEPT ![t] = "update"]
    /\ upd' = [upd EXCEPT ![t] = [no_update EXCEPT !.key = virtual_key,
                                                   !.cached_only = cached]]

\* The branch of the if / elif / else chain, decided on self.__blanked as read
\* on entry.
update_branch(virtual_key) ==
    IF blanked /\ brightness_quirk THEN "quirk"
    ELSE IF ~valid_key(virtual_key) THEN "blank"
    ELSE "button"

\* Whether the call reads the button's state (and assigns it to self.__states).
update_fetches(branch, virtual_key, cached) ==
    \/ branch = "quirk" /\ valid_key(virtual_key) /\ ~cached
    \/ branch = "button" /\ ~cached

\* key_style of the branch
key_style(branch, virtual_key, state) ==
    IF branch = "quirk" THEN quirk_style
    ELSE IF branch = "blank" THEN blank_style(virtual_key)
    ELSE button_style(virtual_key, state)

\* __render_key_image up to the test "cache_key not in self.__images".
cache_hit(style) == "cache" \notin observe \/ cache_key(style) \in images

\* Entry: choose the branch; a branch that does not read the button goes on to
\* the renderer with the cached state.
UpdateEnter(t) ==
    /\ Running
    /\ pc[t] = "update"
    /\ LET k == upd[t].key
           branch == update_branch(k)
           fetch == update_fetches(branch, k, upd[t].cached_only)
           state == IF branch = "button" THEN states_get(k) ELSE "None"
           style == key_style(branch, k, state)
       IN  /\ upd' = [upd EXCEPT ![t] = [@ EXCEPT !.branch = branch, !.fetched = fetch,
                                                  !.state = state, !.style = style]]
           /\ pc' = [pc EXCEPT ![t] = IF fetch THEN "u_store"
                                      ELSE IF cache_hit(style) THEN "u_write"
                                      ELSE "u_render"]
           /\ cb' = IF t = "cb" /\ fetch THEN [cb EXCEPT !.reads = @ \cup {k}] ELSE cb
    /\ UNCHANGED <<config_vars, driver_vars, deck_vars, remote, cache_only, loop_i,
                   press, close_vars,
                   side_vars>>

store_state_keep_known(virtual_key, value) ==
    IF value = "None" /\ virtual_key \in DOMAIN states
    THEN states ELSE states_set(virtual_key, value)

\* self.__states[virtual_key] = self.__buttons[virtual_key].state
store_state(virtual_key, value) == states_set(virtual_key, value)

\* An exception leaves the driver operation of thread t: it ends the main loop,
\* or the callback and with it the reader thread.
raise_out(t) ==
    /\ pc' = [pc EXCEPT ![t] = IF t = "main" THEN "crashed" ELSE "dead"]
    /\ upd' = [upd EXCEPT ![t] = no_update]
    /\ loop_i' = [loop_i EXCEPT ![t] = 0]
    /\ cache_only' = IF t = "main" THEN FALSE ELSE cache_only
    /\ press' = IF t = "cb" THEN no_key ELSE press
    /\ cb' = IF t = "cb" THEN no_press ELSE cb

\* The button's state has been read: assign it, then go on to the renderer. The
\* read is not inside a try.
UpdateStore(t) ==
    /\ Running
    /\ pc[t] = "u_store"
    /\ \E response \in button_responses(upd[t].key) :
        LET k == upd[t].key
            state == button_state(k, response)
            style == key_style(upd[t].branch, k, state)
        IN  IF state = "Raise"
            THEN raise_out(t) /\ UNCHANGED states
            ELSE /\ states' = store_state(k, state)
                 /\ upd' = [upd EXCEPT ![t] = [@ EXCEPT !.state = state, !.style = style]]
                 /\ pc' = [pc EXCEPT ![t] = IF cache_hit(style) THEN "u_write"
                                            ELSE "u_render"]
                 /\ cb' = IF t = "cb" THEN [cb EXCEPT !.touched = @ \cup {k}] ELSE cb
                 /\ UNCHANGED <<cache_only, loop_i, press>>
    /\ UNCHANGED <<config_vars, buttons, images, blanked, idle, deck_vars, remote,
                   close_vars,
                   side_vars>>

\* The renderer has run: self.__images[cache_key] = image
UpdateRender(t) ==
    /\ Running
    /\ pc[t] = "u_render"
    /\ images' = images \cup {cache_key(upd[t].style)}
    /\ pc' = [pc EXCEPT ![t] = "u_write"]
    /\ UNCHANGED <<config_vars, buttons, states, blanked, idle, deck_vars, remote,
                   cache_only, loop_i, press, upd, cb, close_vars,
                   side_vars>>

image_target_unrotated(virtual_key) == virtual_key

\* self.__virtual_to_physical(virtual_key) of the set_key_image call
image_target(virtual_key) == virtual_to_physical(rotation, Rows, Cols, virtual_key)

\* Where the caller of __update_key_image goes on: the next key of a loop over
\* range(key_count()), or the end of refresh or of the callback.
update_return(t) ==
    IF (t = "main" \/ cb.path = "wake") /\ loop_i[t] + 1 < KeyCount
    THEN /\ loop_i' = [loop_i EXCEPT ![t] = @ + 1]
         /\ call_update(t, loop_i[t] + 1, IF t = "main" THEN cache_only ELSE TRUE)
         /\ UNCHANGED cache_only
    ELSE /\ loop_i' = [loop_i EXCEPT ![t] = 0]
         /\ upd' = [upd EXCEPT ![t] = no_update]
         /\ pc' = [pc EXCEPT ![t] = IF t = "main" THEN "refresh" ELSE "k_done"]
         /\ cache_only' = IF t = "main" THEN FALSE ELSE cache_only

\* with self.deck: set_key_image(...), a TransportError being passed over.
UpdateWrite(t) ==
    /\ Running
    /\ pc[t] = "u_write"
    /\ LET w == [key |-> image_target(upd[t].key), style |-> upd[t].style]
       IN  /\ \E ok \in BOOLEAN :
                deck_images' = IF ok /\ "deck" \in observe
                               THEN [deck_images EXCEPT ![w.key] = w.style]
                               ELSE deck_images
           /\ cb' = IF t = "cb" THEN [cb EXCEPT !.writes = Append(@, w)] ELSE cb
    /\ update_return(t)
    /\ UNCHANGED <<config_vars, driver_vars, deck_brightness, remote, press, close_vars,
                   side_vars>>

(* ------------------------- main thread: refresh ------------------------ *)

\* The remote switches behind the buttons of a list, all off at first.
remote_of(list) ==
    [k \in {i - 1 : i \in {j \in DOMAIN list : list[j] = "HomeAssistantButton"}} |-> "False"]

\* driver.add_buttons([buttonfactory(entity) for entity in ...])
AddButtons ==
    /\ Running
    /\ pc["main"] = "add_buttons"
    /\ buttons' = buttons \o entities
    /\ remote' = remote_of(buttons \o entities)
    /\ pc' = [pc EXCEPT !["main"] = "refresh"]
    /\ UNCHANGED <<config_vars, states, images, blanked, idle, deck_vars, cache_only,
                   loop_i, press, upd, cb, close_vars,
                   side_vars>>

\* refresh() up to the timeout test: either on to the blanking, or straight to
\* the loop over the keys with cache_only = False.
RefreshCheck ==
    /\ Running
    /\ pc["main"] = "refresh"
    /\ IF refresh_timed_out
       THEN /\ cache_only' = brightness_quirk
            /\ pc' = [pc EXCEPT !["main"] = "r_blank"]
            /\ UNCHANGED upd
       ELSE /\ cache_only' = FALSE
            /\ call_update("main", 0, FALSE)
    /\ UNCHANGED <<config_vars, driver_vars, deck_vars, remote, loop_i, press, cb,
                   close_vars,
                   side_vars>>

\* with self.deck: set_brightness(0); self.__blanked = True. A TransportError of
\* set_brightness is not caught: it leaves refresh and the main loop.
RefreshBlank ==
    /\ Running
    /\ pc["main"] = "r_blank"
    /\ \E ok \in BOOLEAN :
        IF ok
        THEN /\ deck_brightness' = 0
             /\ blanked' = TRUE
             /\ call_update("main", 0, cache_only)
             /\ UNCHANGED cache_only
        ELSE /\ pc' = [pc EXCEPT !["main"] = "crashed"]
             /\ cache_only' = FALSE
             /\ UNCHANGED <<deck_brightness, blanked, upd>>
    /\ UNCHANGED <<config_vars, buttons, states, images, idle, deck_images, remote,
                   loop_i, press, cb, close_vars,
                   side_vars>>

(* ------------------------- main thread: close ------------------------- *)

\* What a key shows after the device's reset.
cleared == [icon |-> "cleared", label |-> "None", color |-> "cleared"]

\* A KeyboardInterrupt ends the sleep of the main loop; its handler calls
\* driver.close(), which sets self.__closed.
Interrupt ==
    /\ Running
    /\ pc["main"] = "refresh"
    /\ closed' = TRUE
    /\ pc' = [pc EXCEPT !["main"] = "c_reset"]
    /\ UNCHANGED <<config_vars, driver_vars, deck_vars, remote, deck_calls, cache_only,
                   loop_i, press, upd, cb, side_vars>>

\* try: with self.deck: self.deck.reset(). A TransportError of reset leaves the
\* with block for the except clause: close() returns.
CloseReset ==
    /\ Running
    /\ pc["main"] = "c_reset"
    /\ deck_calls' = Append(deck_calls, "reset")
    /\ \E ok \in BOOLEAN :
        IF ok
        THEN /\ deck_images' = IF "deck" \in observe
                               THEN [p \in DOMAIN deck_images |-> cleared]
                               ELSE deck_images
             /\ pc' = [pc EXCEPT !["main"] = "c_close"]
        ELSE /\ pc' = [pc EXCEPT !["main"] = "closed"]
             /\ UNCHANGED deck_images
    /\ UNCHANGED <<config_vars, driver_vars, deck_brightness, remote, closed, cache_only,
                   loop_i, press, upd, cb, side_vars>>

\* self.deck.close(), a TransportError being passed over; close() returns and
\* the main loop is left.
CloseDevice ==
    /\ Running
    /\ pc["main"] = "c_close"
    /\ deck_calls' = Append(deck_calls, "close")
    /\ pc' = [pc EXCEPT !["main"] = "closed"]
    /\ UNCHANGED <<config_vars, driver_vars, deck_vars, remote, closed, cache_only,
                   loop_i, press, upd, cb, side_vars>>

(* -------------------- reader thread: key callback ---------------------- *)

\* The path a press takes: the wake path when the screen timed out.
press_path == IF press_timed_out THEN "wake" ELSE "toggle"

callback_entry_release_first(deck, pressed) ==
    IF ~pressed THEN "return"
    ELSE IF deck # "own" THEN "raise"
    ELSE "press"

\* The first two tests of __key_change_callback: an event of a deck that is not
\* self.deck raises Exception("Logic error!"), a release returns.
callback_entry(deck, pressed) ==
    IF deck # "own" THEN "raise"
    ELSE IF ~pressed THEN "return"
    ELSE "press"

\* __key_change_callback(deck, physical_key, pressed) up to the timeout test.
\* The exception of a foreign deck ends the callback and the reader thread.
KeyChange ==
    /\ Running
    /\ pc["cb"] = "idle"
    /\ \E deck \in {"own", "other"}, physical_key \in 0..(KeyCount - 1),
          pressed \in BOOLEAN :
        IF callback_entry(deck, pressed) = "raise"
        THEN /\ pc' = [pc EXCEPT !["cb"] = "logic_error"]
             /\ press' = [no_key EXCEPT !.deck = deck, !.pressed = pressed]
             /\ UNCHANGED cb
        ELSE IF callback_entry(deck, pressed) = "return"
        THEN /\ press' = [no_key EXCEPT !.deck = deck]
             /\ UNCHANGED <<pc, cb>>
        ELSE LET virtual_key == physical_to_virtual(rotation, Rows, Cols, physical_key)
                 path == press_path
             IN  /\ press' = [deck |-> deck, pressed |-> pressed,
                              physical |-> physical_key, virtual |-> virtual_key,
                              read |-> "None"]
                 /\ cb' = [no_press EXCEPT !.path = path,
                                           !.due = (timeout > 0 /\ idle > timeout),
                                           !.blanked = blanked,
                                           !.button = InRange(virtual_key)]
                 /\ pc' = [pc EXCEPT !["cb"] =
                              IF path = "wake" THEN "k_wake"
                              ELSE IF InRange(virtual_key) THEN "k_get"
                              ELSE "k_touch"]
    /\ UNCHANGED <<config_vars, driver_vars, deck_vars, remote, cache_only, loop_i,
                   upd, close_vars,
                   side_vars>>

\* with self.deck: set_brightness(self.__brightness); self.__blanked = False.
\* A TransportError of set_brightness is not caught: it ends the callback and
\* with it the reader thread.
PressWake ==
    /\ Running
    /\ pc["cb"] = "k_wake"
    /\ \E ok \in BOOLEAN :
        IF ok
        THEN /\ deck_brightness' = brightness
             /\ blanked' = FALSE
             /\ pc' = [pc EXCEPT !["cb"] = "k_woken"]
             /\ UNCHANGED <<press, cb>>
        ELSE /\ pc' = [pc EXCEPT !["cb"] = "dead"]
             /\ press' = no_key
             /\ cb' = no_press
             /\ UNCHANGED <<deck_brightness, blanked>>
    /\ UNCHANGED <<config_vars, buttons, states, images, idle, deck_images, remote,
                   cache_only, loop_i, upd, close_vars,
                   side_vars>>

\* self.__lastbutton = time.time(), then the redraw of every key from the cached
\* states on a deck with the brightness quirk, then return.
PressWoken ==
    /\ Running
    /\ pc["cb"] = "k_woken"
    /\ idle' = 0
    /\ cb' = [cb EXCEPT !.stamped = TRUE]
    /\ IF brightness_quirk
       THEN call_update("cb", 0, TRUE)
       ELSE /\ pc' = [pc EXCEPT !["cb"] = "k_done"]
            /\ UNCHANGED upd
    /\ UNCHANGED <<config_vars, buttons, states, images, blanked, deck_vars, remote,
                   cache_only, loop_i, press, close_vars,
                   side_vars>>

\* The read of self.__buttons[virtual_key].state on the right of the assignment.
PressGet ==
    /\ Running
    /\ pc["cb"] = "k_get"
    /\ \E response \in button_responses(press.virtual) :
        LET state == button_state(press.virtual, response)
        IN  IF state = "Raise"
            THEN raise_out("cb")
            ELSE /\ press' = [press EXCEPT !.read = state]
                 /\ pc' = [pc EXCEPT !["cb"] = "k_set"]
                 /\ UNCHANGED <<cache_only, loop_i, upd, cb>>
    /\ UNCHANGED <<config_vars, driver_vars, deck_vars, remote, close_vars,
                   side_vars>>

\* HomeAssistantButton.state (setter): the service is chosen on a new read of
\* the state, not on the value handed in.
setter_service(read, newstate) ==
    IF Truthy(read) THEN "turn_off" ELSE "turn_on"

\* The assignment to .state: the setter of a switch reads the state (outside
\* its try) and posts its service, and a post that fails is passed over; the
\* setter of a placeholder does nothing.
PressSet ==
    /\ Running
    /\ pc["cb"] = "k_set"
    /\ LET k == press.virtual
           newstate == PyNot(press.read)
       IN  IF IsBlankButton(buttons[k + 1])
           THEN /\ cb' = [cb EXCEPT !.setter = Append(@, <<k, newstate, "pass">>)]
                /\ pc' = [pc EXCEPT !["cb"] = "k_touch"]
                /\ UNCHANGED <<remote, cache_only, loop_i, press, upd>>
           ELSE \E response \in button_responses(k) :
                LET read == button_state(k, response)
                    service == setter_service(read, newstate)
                IN  IF read = "Raise"
                    THEN raise_out("cb") /\ UNCHANGED remote
                    ELSE /\ cb' = [cb EXCEPT !.setter = Append(@, <<k, newstate, service>>)]
                         /\ \E ok \in BOOLEAN :
                              remote' = IF ok
                                        THEN [remote EXCEPT ![k] =
                                                IF service = "turn_on" THEN "True"
                                                ELSE "False"]
                                        ELSE remote
                         /\ pc' = [pc EXCEPT !["cb"] = "k_touch"]
                         /\ UNCHANGED <<cache_only, loop_i, press, upd>>
    /\ UNCHANGED <<config_vars, driver_vars, deck_vars, close_vars,
                   side_vars>>

\* self.__lastbutton = time.time(); self.__update_key_image(virtual_key)
PressTouch ==
    /\ Running
    /\ pc["cb"] = "k_touch"
    /\ idle' = 0
    /\ cb' = [cb EXCEPT !.stamped = TRUE]
    /\ call_update("cb", press.virtual, FALSE)
    /\ UNCHANGED <<config_vars, buttons, states, images, blanked, deck_vars, remote,
                   cache_only, loop_i, press, close_vars,
                   side_vars>>

\* The callback returns; the reader thread waits for the next key event.
KeyChangeReturn ==
    /\ Running
    /\ pc["cb"] = "k_done"
    /\ pc' = [pc EXCEPT !["cb"] = "idle"]
    /\ press' = no_key
    /\ cb' = no_press
    /\ UNCHANGED <<config_vars, driver_vars, deck_vars, remote, cache_only, loop_i,
                   upd, close_vars,
                   side_vars>>

(* ---------------------------- environment ------------------------------ *)

\* A second passes without a press.
Tick ==
    /\ Running
    /\ idle < MaxIdle
    /\ idle' = idle + 1
    /\ UNCHANGED <<config_vars, buttons, states, images, blanked, deck_vars, remote,
                   thread_vars, cb, close_vars,
                   side_vars>>

\* A switch changes at the remote source, or the source becomes unreachable or
\* reachable again.
RemoteChange ==
    /\ Running
    /\ \E k \in DOMAIN remote, v \in PyValues :
        /\ v # remote[k]
        /\ remote' = [remote EXCEPT ![k] = v]
    /\ UNCHANGED <<config_vars, driver_vars, deck_vars, thread_vars, cb, close_vars,
                   side_vars>>

(* --------------------------- specification ----------------------------- *)

Next ==
    \/ AddButtons
    \/ RefreshCheck
    \/ RefreshBlank
    \/ Interrupt
    \/ CloseReset
    \/ CloseDevice
    \/ \E t \in Threads : UpdateEnter(t)
    \/ \E t \in Threads : UpdateStore(t)
    \/ \E t \in Threads : UpdateRender(t)
    \/ \E t \in Threads : UpdateWrite(t)
    \/ KeyChange
    \/ PressWake
    \/ PressWoken
    \/ PressGet
    \/ PressSet
    \/ PressTouch
    \/ KeyChangeReturn
    \/ Tick
    \/ RemoteChange

Spec == Init /\ [][Next]_vars

(* ---------------------- specification with fairness -------------------- *)

\* The runs whose device images are recorded: a deck without the quirk and with
\* a screen timeout, and a deck with the quirk and the timeout disabled, whose
\* render cache is recorded too.
LiveRuns ==
    { [timeout |-> 1, quirk |-> FALSE, list |-> <<"HomeAssistantButton">>,
       observe |-> {"deck"}],
      [timeout |-> 0, quirk |-> TRUE,  list |-> <<"HomeAssistantButton">>,
       observe |-> {"deck", "cache"}] }

InitLive ==
    /\ rotation \in DriverRotations
    /\ layout \in DeckLayouts
    /\ \E run \in LiveRuns :
        /\ timeout = run.timeout
        /\ brightness_quirk = run.quirk
        /\ entities = run.list
        /\ observe = run.observe
    /\ brightness = DefaultBrightness
    /\ buttons = <<>>
    /\ states = <<>>
    /\ images = {cache_key_of("Blank.png", "#555555", <<>>, rotation)}
    /\ blanked = FALSE
    /\ idle = 0
    /\ deck_brightness = DefaultBrightness
    /\ deck_images = [p \in 0..(key_count(layout[1], layout[2]) - 1) |->
                        [icon |-> "Blank.png", label |-> "None", color |-> "#555555"]]
    /\ remote = <<>>
    /\ closed = FALSE
    /\ deck_calls = <<>>
    /\ pc = [t \in Threads |-> IF t = "main" THEN "add_buttons" ELSE "idle"]
    /\ cache_only = FALSE
    /\ loop_i = [t \in Threads |-> 0]
    /\ press = no_key
    /\ upd = [t \in Threads |-> no_update]
    /\ cb = no_press
    /\ map_idle
    /\ render = no_render
    /\ lk = no_lock
    /\ new = constructed
    /\ wrap = no_wrap

\* A step of the main thread: add_buttons, then "while not driver.closed:
\* time.sleep(1.0); driver.refresh()", and close() once entered.
MainStep ==
    \/ AddButtons
    \/ RefreshCheck
    \/ RefreshBlank
    \/ CloseReset
    \/ CloseDevice
    \/ UpdateEnter("main")
    \/ UpdateStore("main")
    \/ UpdateRender("main")
    \/ UpdateWrite("main")

\* A step of a callback that the reader thread has begun.
CallbackStep ==
    \/ PressWake
    \/ PressWoken
    \/ PressGet
    \/ PressSet
    \/ PressTouch
    \/ KeyChangeReturn
    \/ UpdateEnter("cb")
    \/ UpdateStore("cb")
    \/ UpdateRender("cb")
    \/ UpdateWrite("cb")

\* Both threads are scheduled as long as they have a step to take; key events,
\* remote changes and the interrupt come as they please.
SpecLive == InitLive /\ [][Next]_vars /\ WF_vars(MainStep) /\ WF_vars(CallbackStep)

(* -------------------- specification of the mapping --------------------- *)

\* A driver constructed on a deck of any layout with any rotation, no key mapped
\* yet.
InitMap ==
    /\ rotation \in Rotations
    /\ layout \in (1..MaxRows) \X (1..MaxCols)
    /\ timeout = 0
    /\ brightness_quirk = FALSE
    /\ entities = <<>>
    /\ observe = {}
    /\ brightness = DefaultBrightness
    /\ buttons = <<>>
    /\ states = <<>>
    /\ images = {cache_key_of("Blank.png", "#555555", <<>>, rotation)}
    /\ blanked = FALSE
    /\ idle = 0
    /\ deck_brightness = DefaultBrightness
    /\ deck_images = [p \in 0..(key_count(layout[1], layout[2]) - 1) |->
                        [icon |-> "Blank.png", label |-> "None", color |-> "#555555"]]
    /\ remote = <<>>
    /\ closed = FALSE
    /\ deck_calls = <<>>
    /\ pc = [t \in Threads |-> "idle"]
    /\ cache_only = FALSE
    /\ loop_i = [t \in Threads |-> 0]
    /\ press = no_key
    /\ upd = [t \in Threads |-> no_update]
    /\ cb = no_press
    /\ map_idle
    /\ render = no_render
    /\ lk = no_lock
    /\ new = constructed
    /\ wrap = no_wrap

\* __virtual_to_physical of a key of the deck, and __physical_to_virtual of the
\* result.
MapKey ==
    /\ \E virtual_key \in 0..(KeyCount - 1) :
        /\ map_key' = virtual_key
        /\ map_physical' = virtual_to_physical(rotation, Rows, Cols, virtual_key)
        /\ map_virtual' = physical_to_virtual(rotation, Rows, Cols,
                              virtual_to_physical(rotation, Rows, Cols, virtual_key))
    /\ UNCHANGED <<config_vars, driver_vars, deck_vars, remote, close_vars, thread_vars, cb, render, lk, new, wrap>>

NextMap == MapKey

SpecMap == InitMap /\ [][NextMap]_vars

(* ------------------ specification of the render cache ----------------- *)

\* A driver as constructed on a deck of two keys, which the specifications of
\* single functions start from.
DriverIdleOn(rot, quirk) ==
    /\ rotation = rot
    /\ layout = <<2, 1>>
    /\ timeout = 0
    /\ brightness_quirk = quirk
    /\ entities = <<>>
    /\ observe = {}
    /\ brightness = DefaultBrightness
    /\ buttons = <<>>
    /\ states = <<>>
    /\ blanked = FALSE
    /\ idle = 0
    /\ deck_brightness = DefaultBrightness
    /\ deck_images = [p \in 0..1 |->
                        [icon |-> "Blank.png", label |-> "None", color |-> "#555555"]]
    /\ remote = <<>>
    /\ closed = FALSE
    /\ deck_calls = <<>>
    /\ pc = [t \in Threads |-> "idle"]
    /\ cache_only = FALSE
    /\ loop_i = [t \in Threads |-> 0]
    /\ press = no_key
    /\ upd = [t \in Threads |-> no_update]
    /\ cb = no_press

DriverIdle == DriverIdleOn(0, FALSE)

\* Icon references, colors and labels over an alphabet with the character '-',
\* the absent label among the labels.
KeyIcons == {"mdi:fan", "mdi:fan-off"}
KeyColors == {"red", "off-red"}
KeyLabels == {<<>>, <<"None">>, <<"Fan">>, <<"red-Fan">>}
KeyTuples == KeyIcons \X KeyColors \X KeyLabels \X {0, 90}

\* Two render requests, made on an empty cache.
InitKey ==
    /\ DriverIdle
    /\ images = {}
    /\ map_idle
    /\ lk = no_lock
    /\ new = constructed
    /\ wrap = no_wrap
    /\ \E a \in KeyTuples, b \in KeyTuples :
          render = [pc |-> "first", a |-> a, b |-> b, hit |-> FALSE]

\* __render_key_image of the first request: a miss, the image is stored.
RenderFirst ==
    /\ render.pc = "first"
    /\ images' = images \cup
                    {cache_key_of(render.a[1], render.a[2], render.a[3], render.a[4])}
    /\ render' = [render EXCEPT !.pc = "second"]
    /\ UNCHANGED <<config_vars, buttons, states, blanked, idle, deck_vars, remote,
                   close_vars, thread_vars, cb, map_vars, lk, new, wrap>>

\* __render_key_image of the second request: the test "cache_key not in
\* self.__images".
RenderSecond ==
    /\ render.pc = "second"
    /\ render' = [render EXCEPT
                    !.pc = "done",
                    !.hit = cache_key_of(render.b[1], render.b[2], render.b[3],
                                         render.b[4]) \in images]
    /\ UNCHANGED <<config_vars, driver_vars, deck_vars, remote, close_vars, thread_vars, cb,
                   map_vars, lk, new, wrap>>

NextKey == RenderFirst \/ RenderSecond

SpecKey == InitKey /\ [][NextKey]_vars

(* ------------------ specification of the device lock ------------------- *)

\* The device calls of a driver operation, in order: <<"with">> enters a
\* "with self.deck:" block, <<"end">> leaves it, <<"call", op, caught>> calls the
\* device, caught telling whether a TransportError of the call is caught inside
\* the operation.
With == <<"with">>
End == <<"end">>
Call(op, caught) == <<"call", op, caught>>

\* The device calls that do transport I/O and may raise TransportError.
Raises(op) == op \in {"set_brightness", "set_key_image", "reset", "close"}

\* __virtual_to_physical and __physical_to_virtual
mapping_calls(rot) ==
    IF rot = 0 THEN <<>>
    ELSE IF rot = 180 THEN <<With, Call("key_count", TRUE), End>>
    ELSE <<With, Call("key_layout", TRUE), End>>

\* __update_key_image: try: with self.deck: set_key_image(v2p(key), image)
update_calls(rot) ==
    <<With>> \o mapping_calls(rot) \o <<Call("set_key_image", TRUE), End>>

RECURSIVE Repeat(_, _)
Repeat(calls, n) == IF n = 0 THEN <<>> ELSE calls \o Repeat(calls, n - 1)

\* for i in range(self.deck.key_count()): self.__update_key_image(i, ...)
loop_calls(rot, n) == <<Call("key_count", TRUE)>> \o Repeat(update_calls(rot), n)

\* refresh(), due telling whether the screen timed out
refresh_calls(due, rot, n) ==
    (IF due THEN <<With, Call("set_brightness", FALSE), End>> ELSE <<>>)
    \o loop_calls(rot, n)

\* __key_change_callback of a press
press_calls(due, quirk, rot, n) ==
    mapping_calls(rot)
    \o (IF due
        THEN <<With, Call("set_brightness", FALSE), End>>
             \o (IF quirk THEN loop_calls(rot, n) ELSE <<>>)
        ELSE update_calls(rot))

\* the brightness setter
brightness_calls == <<With, Call("set_brightness", TRUE), End>>

\* close()
close_calls == <<With, Call("reset", TRUE), Call("close", TRUE), End>>

\* The calls left after a TransportError raised inside a with block: the rest
\* of the operation behind the block when the error is caught, nothing when it
\* leaves the operation.
RECURSIVE after_block(_)
after_block(calls) ==
    IF calls = <<>> THEN <<>>
    ELSE IF Head(calls) = End THEN Tail(calls)
    ELSE after_block(Tail(calls))

InitLock ==
    /\ \E rot \in Rotations, quirk \in BOOLEAN : DriverIdleOn(rot, quirk)
    /\ images = {cache_key_of("Blank.png", "#555555", <<>>, rotation)}
    /\ map_idle
    /\ render = no_render
    /\ lk = no_lock
    /\ new = constructed
    /\ wrap = no_wrap

\* A thread enters a driver operation: the main thread refresh, the brightness
\* setter or close, the reader thread the callback of a press.
LockStart(t) ==
    /\ ~lk.closed
    /\ lk.prog[t] = <<>>
    /\ \E calls \in
          IF t = "main"
          THEN {refresh_calls(due, rotation, KeyCount) : due \in BOOLEAN}
               \cup {brightness_calls, close_calls}
          ELSE {press_calls(due, brightness_quirk, rotation, KeyCount) : due \in BOOLEAN} :
          lk' = [lk EXCEPT !.prog[t] = calls, !.closed = (calls = close_calls)]
    /\ UNCHANGED <<config_vars, driver_vars, deck_vars, remote, close_vars, thread_vars, cb,
                   map_vars, render, new, wrap>>

\* with self.deck: the lock is taken, once more when the thread holds it.
LockWith(t) ==
    /\ lk.prog[t] # <<>>
    /\ lk.inside[t] = "none"
    /\ Head(lk.prog[t]) = With
    /\ lk.owner \in {"none", t}
    /\ lk' = [lk EXCEPT !.owner = t, !.count = @ + 1, !.prog[t] = Tail(@)]
    /\ UNCHANGED <<config_vars, driver_vars, deck_vars, remote, close_vars, thread_vars, cb,
                   map_vars, render, new, wrap>>

\* The thread enters a device call.
LockCall(t) ==
    /\ lk.prog[t] # <<>>
    /\ lk.inside[t] = "none"
    /\ Head(lk.prog[t])[1] = "call"
    /\ lk' = [lk EXCEPT !.inside[t] = Head(lk.prog[t])[2]]
    /\ UNCHANGED <<config_vars, driver_vars, deck_vars, remote, close_vars, thread_vars, cb,
                   map_vars, render, new, wrap>>

\* The device call returns, or raises TransportError: the with block around it
\* gives the lock back, and the operation goes on behind the block or is left.
LockReturn(t) ==
    /\ lk.inside[t] # "none"
    /\ \E ok \in BOOLEAN :
        IF ok \/ ~Raises(lk.inside[t])
        THEN lk' = [lk EXCEPT !.inside[t] = "none", !.prog[t] = Tail(@)]
        ELSE lk' = [lk EXCEPT !.inside[t] = "none",
                              !.owner = IF @ = t THEN "none" ELSE @,
                              !.count = IF lk.owner = t THEN 0 ELSE @,
                              !.prog[t] = IF Head(@)[3] THEN after_block(@) ELSE <<>>]
    /\ UNCHANGED <<config_vars, driver_vars, deck_vars, remote, close_vars, thread_vars, cb,
                   map_vars, render, new, wrap>>

\* The end of a with block: the lock is given back once.
LockEnd(t) ==
    /\ lk.prog[t] # <<>>
    /\ lk.inside[t] = "none"
    /\ Head(lk.prog[t]) = End
    /\ lk' = [lk EXCEPT !.count = @ - 1,
                        !.owner = IF lk.count = 1 THEN "none" ELSE @,
                        !.prog[t] = Tail(@)]
    /\ UNCHANGED <<config_vars, driver_vars, deck_vars, remote, close_vars, thread_vars, cb,
                   map_vars, render, new, wrap>>

NextLock ==
    \/ \E t \in Threads : LockStart(t)
    \/ \E t \in Threads : LockWith(t)
    \/ \E t \in Threads : LockCall(t)
    \/ \E t \in Threads : LockReturn(t)
    \/ \E t \in Threads : LockEnd(t)

SpecLock == InitLock /\ [][NextLock]_vars

(* ------------------ specification of the constructor ------------------ *)

\* The rotation arguments the constructor is called with: the right angles,
\* their negatives, and angles that are none of them.
RotationArgs == {0, 90, 180, 270, -90, -180, -270, 45, -45, 360, -360, 450}

rotation_accepted_any_right_angle(rot) == rot % 90 = 0

\* self.__rotation not in {0, 90, 180, 270, -90, -180, -270} does not hold
rotation_accepted(rot) == rot \in {0, 90, 180, 270, -90, -180, -270}

\* if self.__rotation < 0: self.__rotation += 360
rotation_normalised(rot) == IF rot < 0 THEN rot + 360 ELSE rot

\* What a key of the device shows, and the brightness of the device, before the
\* driver has written any.
unwritten == [icon |-> "unwritten", label |-> "None", color |-> "unwritten"]
DeviceBrightness == 100

\* The constructor is entered with an opened deck of two keys: no field is
\* assigned, nothing is registered with the device or written to it.
InitNew ==
    /\ \E arg \in RotationArgs :
          new = [pc |-> "start", arg |-> arg, registered |-> FALSE, assigned |-> {},
                 callback |-> "none"]
    /\ wrap = no_wrap
    /\ brightness_quirk \in BOOLEAN
    /\ rotation = 0
    /\ layout = <<2, 1>>
    /\ timeout \in {0, 1}
    /\ entities = <<>>
    /\ observe = {"deck"}
    /\ brightness = 0
    /\ buttons = <<>>
    /\ states = <<>>
    /\ images = {}
    /\ blanked = FALSE
    /\ idle = 0
    /\ deck_brightness = DeviceBrightness
    /\ deck_images = [p \in 0..1 |-> unwritten]
    /\ remote = <<>>
    /\ closed = FALSE
    /\ deck_calls = <<>>
    /\ pc = [t \in Threads |-> "idle"]
    /\ cache_only = FALSE
    /\ loop_i = [t \in Threads |-> 0]
    /\ press = no_key
    /\ upd = [t \in Threads |-> no_update]
    /\ cb = no_press
    /\ map_idle
    /\ render = no_render
    /\ lk = no_lock

\* The quirk detection and the assignment of the fields, self.__rotation as
\* it was handed in.
NewFields ==
    /\ new.pc = "start"
    /\ rotation' = new.arg
    /\ new' = [new EXCEPT !.pc = "check", !.assigned = EarlyFields]
    /\ UNCHANGED <<layout, timeout, brightness_quirk, brightness, entities, observe,
                   driver_vars, deck_vars, remote, close_vars, thread_vars, cb, map_vars, render, lk, wrap>>

\* The bounds check of the rotation: raise, or make a negative rotation
\* positive.
NewCheckRotation ==
    /\ new.pc = "check"
    /\ IF rotation_accepted(rotation)
       THEN /\ rotation' = rotation_normalised(rotation)
            /\ new' = [new EXCEPT !.pc = "register"]
       ELSE /\ new' = [new EXCEPT !.pc = "failed"]
            /\ UNCHANGED rotation
    /\ UNCHANGED <<layout, timeout, brightness_quirk, brightness, entities, observe,
                   driver_vars, deck_vars, remote, close_vars, thread_vars, cb, map_vars, render, lk, wrap>>

\* deck.set_key_callback(self.__key_change_callback)
NewRegister ==
    /\ new.pc = "register"
    /\ new' = [new EXCEPT !.pc = "brightness", !.registered = TRUE]
    /\ UNCHANGED <<config_vars, driver_vars, deck_vars, remote, close_vars, thread_vars, cb,
                   map_vars, render, lk, wrap>>

\* self.__brightness = brightness; self.brightness = brightness: the setter
\* passes over a TransportError of set_brightness.
NewBrightness ==
    /\ new.pc = "brightness"
    /\ brightness' = DefaultBrightness
    /\ \E ok \in BOOLEAN :
          deck_brightness' = IF ok THEN DefaultBrightness ELSE deck_brightness
    /\ new' = [new EXCEPT !.pc = "mdi", !.assigned = @ \cup {"brightness"}]
    /\ UNCHANGED <<rotation, layout, timeout, brightness_quirk, entities, observe,
                   driver_vars, deck_images, remote, close_vars, thread_vars, cb, map_vars, render,
                   lk, wrap>>

\* The glyph mapping and the glyph font are assigned.
NewMdi ==
    /\ new.pc = "mdi"
    /\ new' = [new EXCEPT !.pc = "refresh",
                           !.assigned = @ \cup {"mdi_mapping", "mdi_font"}]
    /\ UNCHANGED <<config_vars, driver_vars, deck_vars, remote, close_vars, thread_vars, cb,
                   map_vars, render, lk, wrap>>

\* self.refresh() of a driver without buttons: every key is rendered blank and
\* written, a TransportError of set_key_image being passed over.
NewRefreshKey ==
    /\ new.pc = "refresh"
    /\ LET k == loop_i["main"]
           style == blank_style(k)
       IN  /\ images' = images \cup {cache_key(style)}
           /\ \E ok \in BOOLEAN :
                deck_images' = IF ok THEN [deck_images EXCEPT ![image_target(k)] = style]
                               ELSE deck_images
           /\ IF k + 1 < KeyCount
              THEN /\ loop_i' = [loop_i EXCEPT !["main"] = k + 1]
                   /\ UNCHANGED new
              ELSE /\ loop_i' = [loop_i EXCEPT !["main"] = 0]
                   /\ new' = [new EXCEPT !.pc = "done"]
    /\ UNCHANGED <<config_vars, buttons, states, blanked, idle, deck_brightness, remote,
                   close_vars, pc, cache_only, press, upd, cb, map_vars, render, lk, wrap>>

\* Time passes while the constructor runs.
NewTick ==
    /\ new.pc \notin {"start", "failed", "done"}
    /\ idle < MaxIdle
    /\ idle' = idle + 1
    /\ UNCHANGED <<config_vars, buttons, states, images, blanked, deck_vars, remote,
                   close_vars, thread_vars, cb, map_vars, render, lk, new, wrap>>

\* The fields __update_key_image and __render_key_image read for a key without
\* a button (self.__buttons[virtual_key] raises IndexError before the glyph
\* fields are looked at, and a blank image has no label to lay out).
update_reads ==
    {"buttons", "blanked", "brightness_quirk", "icon_images", "icon_colors", "rotation",
     "images", "deck"}

\* The fields __key_change_callback reads on a path, on a driver without
\* buttons.
callback_reads(path) ==
    {"deck", "rotation", "timeout", "lastbutton"} \cup
    (IF path = "wake"
     THEN {"brightness", "brightness_quirk"} \cup
          (IF brightness_quirk THEN update_reads ELSE {})
     ELSE {"buttons"} \cup update_reads)

\* The reader thread of the opened deck delivers a press to the registered
\* callback while the constructor has not returned. The read of a field that is
\* not assigned raises AttributeError; on the wake path that is
\* self.__brightness, read before anything is changed.
NewKeyChange ==
    /\ new.registered
    /\ new.pc \notin {"failed", "done"}
    /\ new.callback = "none"
    /\ \E physical_key \in 0..(KeyCount - 1) :
        LET virtual_key == physical_to_virtual(rotation, Rows, Cols, physical_key)
            path == press_path
            blank == blank_style(virtual_key)
        IN  IF ~(callback_reads(path) \subseteq new.assigned)
            THEN /\ new' = [new EXCEPT !.callback = "attribute_error"]
                 /\ UNCHANGED <<images, blanked, idle, deck_vars>>
            ELSE IF path = "wake"
            THEN \E ok \in BOOLEAN :
                    IF ~ok
                    THEN /\ new' = [new EXCEPT !.callback = "transport_error"]
                         /\ UNCHANGED <<images, blanked, idle, deck_vars>>
                    ELSE /\ new' = [new EXCEPT !.callback = "returned"]
                         /\ deck_brightness' = brightness
                         /\ blanked' = FALSE
                         /\ idle' = 0
                         /\ IF brightness_quirk
                            THEN /\ images' = images \cup {cache_key(blank)}
                                 /\ \E written \in SUBSET (0..(KeyCount - 1)) :
                                       deck_images' =
                                          [p \in DOMAIN deck_images |->
                                              IF p \in written THEN blank
                                              ELSE deck_images[p]]
                            ELSE UNCHANGED <<images, deck_images>>
            ELSE /\ new' = [new EXCEPT !.callback = "returned"]
                 /\ idle' = 0
                 /\ images' = images \cup {cache_key(blank)}
                 /\ \E ok \in BOOLEAN :
                       deck_images' = IF ok
                                      THEN [deck_images EXCEPT
                                               ![image_target(virtual_key)] = blank]
                                      ELSE deck_images
                 /\ UNCHANGED <<blanked, deck_brightness>>
    /\ UNCHANGED <<config_vars, buttons, states, remote, close_vars, thread_vars, cb,
                   map_vars, render, lk, wrap>>

NextNew ==
    \/ NewFields
    \/ NewCheckRotation
    \/ NewRegister
    \/ NewBrightness
    \/ NewMdi
    \/ NewRefreshKey
    \/ NewTick
    \/ NewKeyChange

SpecNew == InitNew /\ [][NextNew]_vars

(* ------------------ specification of the text wrapping ----------------- *)

\* The letters of a word: one lowercase and one uppercase letter.
Letters == {"a", "A"}

isupper(c) == c = "A"

\* The words of 1..MaxWord letters.
Words == UNION {[1..n -> Letters] : n \in 1..MaxWord}

\* font.getlength(line) for a font whose every glyph is one unit wide.
getlength(line) == Len(line)

\* (word[:at], word[at:])
cut(word, at) == <<SubSeq(word, 1, at), SubSeq(word, at + 1, Len(word))>>

\* The while loop of __split_word from the value sub of its counter on: the
\* letter at loc - sub is tested before the letter at loc + sub, and the index
\* loc - sub goes down to 0. Python indexes from 0, a sequence from 1.
RECURSIVE split_scan(_, _, _)
split_scan(word, loc, sub) ==
    IF sub > loc
    THEN cut(word, loc)
    ELSE IF isupper(word[loc - sub + 1])
         THEN cut(word, loc - sub)
         ELSE IF loc + sub < Len(word) /\ isupper(word[loc + sub + 1])
              THEN cut(word, loc + sub)
              ELSE split_scan(word, loc, sub + 1)

split_word(word) == split_scan(word, IntDiv(Len(word), 2), 0)

\* A label of one word is to be wrapped to a line length.
InitWrap ==
    /\ DriverIdle
    /\ images = {}
    /\ map_idle
    /\ render = no_render
    /\ lk = no_lock
    /\ new = constructed
    /\ \E word \in Words, width \in 1..MaxWord :
          wrap = [pc |-> "word", word |-> word, width |-> width,
                  halves |-> <<>>, lines |-> <<>>]

\* __get_wrapped_text, the word fits the empty line: it becomes the line.
WrapFits ==
    /\ wrap.pc = "word"
    /\ getlength(wrap.word) <= wrap.width
    /\ wrap' = [wrap EXCEPT !.pc = "done", !.lines = <<wrap.word>>]
    /\ UNCHANGED <<config_vars, driver_vars, deck_vars, remote, close_vars, thread_vars, cb,
                   map_vars, render, lk, new>>

\* __get_wrapped_text, the word alone exceeds the line length: it is split, the
\* halves become two lines and the empty lines are left out of the result.
WrapSplit ==
    /\ wrap.pc = "word"
    /\ getlength(wrap.word) > wrap.width
    /\ LET halves == split_word(wrap.word)
       IN wrap' = [wrap EXCEPT !.pc = "done",
                               !.halves = halves,
                               !.lines = SelectSeq(halves, LAMBDA ln : ln # <<>>)]
    /\ UNCHANGED <<config_vars, driver_vars, deck_vars, remote, close_vars, thread_vars, cb,
                   map_vars, render, lk, new>>

NextWrap == WrapFits \/ WrapSplit

SpecWrap == InitWrap /\ [][NextWrap]_vars

(* ------------------------------ claims --------------------------------- *)

\* C1: for every rotation, every layout and every key k of the deck, mapping k
\* to its physical index and back gives k, the physical index is a key of the
\* deck, and no other virtual key is mapped to the same physical index.
C1_RoundTripPermutation ==
    map_key >= 0 =>
        /\ map_virtual = map_key
        /\ map_physical \in 0..(KeyCount - 1)
        /\ \A other \in 0..(KeyCount - 1) :
              other # map_key =>
                  virtual_to_physical(rotation, Rows, Cols, other) # map_physical

\* C1 witness: a key of a non-square deck rotated by 90 degrees that is moved
\* by the mapping and comes back.
C1_Witness ==
    /\ map_key >= 0
    /\ rotation = 90
    /\ Rows # Cols
    /\ map_physical # map_key
    /\ map_virtual = map_key

\* C2: a press callback that starts while the blanked flag is true takes the
\* wake path (hardware brightness restored, flag cleared) and has not invoked
\* the state setter of any button when it returns.
C2_BlankedPressWakes ==
    (pc["cb"] = "k_done" /\ cb.blanked) =>
        (cb.path = "wake" /\ cb.setter = <<>>)

\* C3 as stated: a press on a key that has a button, starting while the blanked
\* flag is false, has when it returns invoked the setter of that button exactly
\* once with the negation of the state it read, assigned no cached state other
\* than the key's, and issued exactly one set_key_image, to the physical key
\* that was pressed.
C3_AwakePressToggles ==
    (pc["cb"] = "k_done" /\ ~cb.blanked /\ cb.button) =>
        /\ Len(cb.setter) = 1
        /\ cb.setter[1][1] = press.virtual
        /\ cb.setter[1][2] = PyNot(press.read)
        /\ cb.touched \subseteq {press.virtual}
        /\ Len(cb.writes) = 1
        /\ cb.writes[1].key = press.physical

\* C3 as amended: the same of a press that starts while the timeout is disabled
\* or has not elapsed, whatever the blanked flag is.
C3_PressInsideTimeoutToggles ==
    (pc["cb"] = "k_done" /\ ~cb.due /\ cb.button) =>
        /\ cb.path = "toggle"
        /\ Len(cb.setter) = 1
        /\ cb.setter[1][1] = press.virtual
        /\ cb.setter[1][2] = PyNot(press.read)
        /\ cb.touched \subseteq {press.virtual}
        /\ Len(cb.writes) = 1
        /\ cb.writes[1].key = press.physical

\* C3 witness: a press inside the timeout on a switch, on a key that the
\* rotation moves, has returned after one setter call that posted a service and
\* one image write.
C3_Witness ==
    /\ pc["cb"] = "k_done"
    /\ ~cb.due
    /\ timeout > 0
    /\ cb.button
    /\ press.virtual # press.physical
    /\ Len(cb.setter) = 1
    /\ cb.setter[1][3] \in {"turn_on", "turn_off"}
    /\ cb.touched = {press.virtual}
    /\ Len(cb.writes) = 1

C5_DisabledTimeoutStaysAwake ==
    timeout <= 0 =>
        /\ ~blanked
        /\ deck_brightness = brightness
        /\ pc["main"] # "r_blank"
        /\ pc["cb"] \notin {"k_wake", "k_woken"}
        /\ cb.path # "wake"

\* C5 witness: with the timeout disabled and the longest idle time, a press is
\* on the toggle path while a refresh is in its loop over the keys.
C5_Witness ==
    /\ timeout <= 0
    /\ idle = MaxIdle
    /\ cb.path = "toggle"
    /\ pc["cb"] = "k_get"
    /\ pc["main"] = "update"
    /\ loop_i["main"] > 0

\* C6: whenever a thread is about to issue set_key_image while the blanked flag
\* is true on a deck with the brightness quirk, the image is the blank style.
C6_BlankedWritesBlankStyle ==
    \A t \in Threads :
        (pc[t] = "u_write" /\ blanked /\ brightness_quirk) =>
            upd[t].style = quirk_style

\* C7: on a deck with the quirk a press on the wake path redraws every key from
\* the cached states: no call of its redraw takes the forced blank branch or
\* reads a button's state, and when the callback returns it has written every
\* key once, in order; on a deck without the quirk it has written no image.
C7_WakeRedrawsFromCache ==
    /\ (cb.path = "wake" /\ pc["cb"] \in {"u_store", "u_render", "u_write"}) =>
          (upd["cb"].branch # "quirk" /\ ~upd["cb"].fetched)
    /\ (cb.path = "wake" /\ pc["cb"] = "k_done") =>
          IF brightness_quirk
          THEN /\ cb.reads = {}
               /\ Len(cb.writes) = KeyCount
               /\ \A i \in 1..Len(cb.writes) : cb.writes[i].key = image_target(i - 1)
          ELSE cb.writes = <<>>

\* C8: a refresh that handles a key with a button while the screen is blanked on
\* a deck with the quirk reads the button's state and stores it.
C8_BlankedRefreshSamples ==
    (/\ pc["main"] \in {"u_store", "u_render", "u_write"}
     /\ upd["main"].branch = "quirk"
     /\ valid_key(upd["main"].key)) =>
        upd["main"].fetched

\* C9 as stated: the assignment of a state that was read as None leaves a cached
\* boolean of that key as it was.
C9_NoneKeepsKnownState ==
    [][ \A t \in Threads :
          (/\ pc[t] = "u_store" /\ pc'[t] # "u_store"
           /\ upd'[t].state = "None"
           /\ upd[t].key \in DOMAIN states
           /\ states[upd[t].key] # "None") =>
              states'[upd[t].key] = states[upd[t].key]
      ]_vars

\* C9 as amended: the assignment of a state that was read as None sets the
\* cached state of that key to None, and the key is styled as off, or blank
\* when the blank style is forced on a blanked deck with the quirk.
C9_NoneOverwritesKnownState ==
    [][ \A t \in Threads :
          (/\ pc[t] = "u_store" /\ pc'[t] # "u_store"
           /\ upd'[t].state = "None") =>
              /\ upd[t].key \in DOMAIN states'
              /\ states'[upd[t].key] = "None"
              /\ upd'[t].style = IF upd[t].branch = "quirk" THEN quirk_style
                                 ELSE [icon |-> "Off.png",
                                       label |-> button_label(upd[t].key),
                                       color |-> "#777777"]
      ]_vars

\* C9 witness: a refresh has read None from an unreachable switch, the cached
\* state of the key is now None and the key is about to be drawn in the off
\* style.
C9_Witness ==
    /\ pc["main"] = "u_write"
    /\ upd["main"].fetched
    /\ upd["main"].state = "None"
    /\ upd["main"].style.icon = "Off.png"
    /\ upd["main"].key \in DOMAIN states
    /\ states[upd["main"].key] = "None"
    /\ remote[upd["main"].key] = "None"

\* C10: a thread runs the renderer and stores its result only for a cache key
\* that is not in the cache, so that no stored entry is ever replaced.
C10_RenderOncePerKey ==
    \A t \in Threads :
        pc[t] = "u_render" => cache_key(upd[t].style) \notin images

\* C11: a render request hits the cache entry of an earlier request only when
\* the two requests agree in icon, color, label and rotation.
C11_DistinctTuplesMiss ==
    (render.pc = "done" /\ render.hit) => render.a = render.b

\* C12: a thread inside a device call holds the device lock, no two threads are
\* inside a device call at once, and a thread that is in no driver operation
\* (it returned or raised) does not hold the lock.
C12_DeviceCallsUnderLock ==
    /\ \A t \in Threads : lk.inside[t] # "none" => lk.owner = t
    /\ ~(lk.inside["main"] # "none" /\ lk.inside["cb"] # "none")
    /\ \A t \in Threads : lk.prog[t] = <<>> => lk.owner # t

\* C13: no TransportError leaves a driver operation: the main loop is never
\* ended by one, nor is the reader thread.
C13_TransportErrorContained ==
    pc["main"] # "crashed" /\ pc["cb"] # "dead"

\* C14: a read of a switch whose source fails gives None and no exception: the
\* update goes on to the renderer; the read and the setter of a press go on to
\* the next step of the callback; and a refresh that has written a key goes on
\* to the next key until the last.
C14_RemoteFailureContained ==
    [][ /\ \A t \in Threads :
              (pc[t] = "u_store" /\ pc'[t] # "u_store") =>
                  /\ pc'[t] \in {"u_render", "u_write"}
                  /\ remote[upd[t].key] = "None" => upd'[t].state = "None"
        /\ (pc["cb"] = "k_get" /\ pc'["cb"] # "k_get") =>
              /\ pc'["cb"] = "k_set"
              /\ (/\ ~IsBlankButton(buttons[press.virtual + 1])
                  /\ remote[press.virtual] = "None") => press'.read = "None"
        /\ (pc["cb"] = "k_set" /\ pc'["cb"] # "k_set") =>
              (pc'["cb"] = "k_touch" /\ Len(cb'.setter) = 1)
        /\ (pc["main"] = "u_write" /\ pc'["main"] # "u_write") =>
              IF upd["main"].key + 1 < KeyCount
              THEN pc'["main"] = "update" /\ upd'["main"].key = upd["main"].key + 1
              ELSE pc'["main"] = "refresh"
      ]_vars

\* C14 witness: a refresh has read None from the failing source of the switch
\* on key 0, stored it, and gone on to the next key.
C14_Witness ==
    /\ pc["main"] = "update"
    /\ upd["main"].key = 1
    /\ ~upd["main"].cached_only
    /\ 0 \in DOMAIN remote
    /\ remote[0] = "None"
    /\ states_get(0) = "None"
    /\ 0 \in DOMAIN states

\* C15 as stated: the image write of a refresh whose state read of the key
\* failed, or which itself fails, leaves the image shown on the key as it was.
C15_FailureKeepsImage ==
    [][ (/\ "deck" \in observe
         /\ pc["main"] = "u_write" /\ pc'["main"] # "u_write"
         /\ upd["main"].fetched /\ upd["main"].state = "None") =>
            deck_images'[image_target(upd["main"].key)]
                = deck_images[image_target(upd["main"].key)]
      ]_vars

\* C15 as amended: the image write of a refresh changes no other key, and
\* leaves the key either as it was (the write failed) or in the style the
\* refresh computed, which after a failed state read is the off style, or the
\* forced blank style on a blanked deck with the quirk.
C15_FailedReadDrawsOff ==
    [][ (pc["main"] = "u_write" /\ pc'["main"] # "u_write") =>
          LET k == upd["main"].key
              p == image_target(k)
          IN  /\ \A q \in DOMAIN deck_images :
                    q # p => deck_images'[q] = deck_images[q]
              /\ deck_images'[p] \in {deck_images[p], upd["main"].style}
              /\ (upd["main"].fetched /\ upd["main"].state = "None") =>
                    upd["main"].style =
                        IF upd["main"].branch = "quirk" THEN quirk_style
                        ELSE [icon |-> "Off.png", label |-> button_label(k),
                              color |-> "#777777"]
      ]_vars

\* C15 witness: the key of a switch shows the on image, the refresh has just
\* read None from the failing source and is about to write the off image.
C15_Witness ==
    /\ "deck" \in observe
    /\ pc["main"] = "u_write"
    /\ upd["main"].fetched
    /\ upd["main"].state = "None"
    /\ upd["main"].style.icon = "Off.png"
    /\ deck_images[image_target(upd["main"].key)].icon = "On.png"

\* C16: every event of a deck that is not the driver's, press or release, ends
\* in the fatal error, and the step that raises it leaves lastInteraction, the
\* blanked flag, the cached states, the render cache, the device and the remote
\* source as they were.
C16_ForeignDeckIsFatal ==
    [][ /\ press'.deck # "own" => pc'["cb"] = "logic_error"
        /\ (pc'["cb"] = "logic_error" /\ pc["cb"] # "logic_error") =>
              /\ press'.deck # "own"
              /\ UNCHANGED <<driver_vars, deck_vars, remote, cb>>
      ]_vars

\* C16 witness: the release of a key of a foreign deck has ended in the fatal
\* error, on a driver that has cached a state and counted idle time.
C16_Witness ==
    /\ pc["cb"] = "logic_error"
    /\ press.deck = "other"
    /\ ~press.pressed
    /\ idle > 0
    /\ 0 \in DOMAIN states

\* C17: a constructor called with a rotation that is no right angle between
\* -270 and 270 fails with the callback not registered and the device's
\* brightness and key images not written; past the check of an accepted
\* rotation the stored rotation is the argument plus 360 when negative, is one
\* of 0, 90, 180, 270, and is not assigned again.
C17_RotationCheckedFirst ==
    [][ /\ new'.arg \notin {0, 90, 180, 270, -90, -180, -270} =>
              /\ new'.pc \in {"start", "check", "failed"}
              /\ ~new'.registered
              /\ deck_brightness' = DeviceBrightness
              /\ \A p \in DOMAIN deck_images' : deck_images'[p] = unwritten
        /\ (new.pc = "check" /\ new'.pc # "check") =>
              (new'.pc = "failed") <=> (new.arg \notin {0, 90, 180, 270, -90, -180, -270})
        /\ new'.pc \in {"register", "brightness", "mdi", "refresh", "done"} =>
              /\ rotation' = IF new'.arg < 0 THEN new'.arg + 360 ELSE new'.arg
              /\ rotation' \in {0, 90, 180, 270}
        /\ new.pc \in {"register", "brightness", "mdi", "refresh", "done"} =>
              rotation' = rotation
      ]_vars

\* C17 witness: a constructor called with -90 has stored 270 and gone on to
\* write the device.
C17_Witness ==
    /\ new.arg = -90
    /\ rotation = 270
    /\ new.pc = "done"
    /\ new.registered
    /\ deck_brightness = DefaultBrightness
    /\ deck_images[0] # unwritten

\* C18: when close() has returned, self.__closed is true and the device has
\* been reset and then closed, whatever device call reported a transport error.
C18_CloseResetsThenCloses ==
    pc["main"] = "closed" => (closed /\ deck_calls = <<"reset", "close">>)

\* C19: a word of two or more letters that alone exceeds the line length is split
\* into two halves that make up the word; with an uppercase letter at an index
\* of 1 or more the split is at such an index nearest to the midpoint, without
\* one it is at the midpoint len/2 and both halves are non-empty.
C19_SplitAtInternalCapital ==
    (wrap.pc = "done" /\ wrap.halves # <<>> /\ Len(wrap.word) >= 2) =>
        LET word == wrap.word
            at == Len(wrap.halves[1])
            mid == Len(word) \div 2
            internal == {i \in 1..(Len(word) - 1) : word[i + 1] = "A"}
            dist(i) == IF i >= mid THEN i - mid ELSE mid - i
        IN /\ wrap.halves[1] \o wrap.halves[2] = word
           /\ IF internal # {}
              THEN at \in internal /\ \A i \in internal : dist(at) <= dist(i)
              ELSE at = mid /\ wrap.halves[1] # <<>> /\ wrap.halves[2] # <<>>

\* C20: every callback of a press of the driver's own device, on the wake path
\* or the toggle path and for a key with or without a button, has assigned
\* self.__lastbutton when it ends.
C20_PressSetsLastButton ==
    [][ (/\ pc["cb"] \notin {"idle", "dead", "logic_error"}
         /\ pc'["cb"] \in {"idle", "dead"}) => (press.pressed /\ cb.stamped) ]_vars

\* C21: on every layout rows x cols and for every key k, virtual_to_physical at
\* 270 degrees gives what physical_to_virtual at 90 degrees gives, and the 90
\* degree virtual_to_physical followed by the 270 degree one returns k.
C21_Rot270InvertsRot90 ==
    (rotation = 270 /\ map_key >= 0) =>
        /\ map_physical = physical_to_virtual(90, Rows, Cols, map_key)
        /\ virtual_to_physical(270, Rows, Cols,
               virtual_to_physical(90, Rows, Cols, map_key)) = map_key

\* C21, amended: on every layout rows x cols and for every key k,
\* virtual_to_physical at 270 degrees gives what physical_to_virtual at 90 degrees
\* gives on the transposed layout cols x rows, and the 90 degree
\* virtual_to_physical of the cols x rows layout followed by the 270 degree one
\* of the rows x cols layout returns k.
C21_Rot270InvertsTransposedRot90 ==
    (rotation = 270 /\ map_key >= 0) =>
        /\ map_physical = physical_to_virtual(90, Cols, Rows, map_key)
        /\ virtual_to_physical(270, Rows, Cols,
               virtual_to_physical(90, Cols, Rows, map_key)) = map_key

\* C21 witness: a key of a non-square deck rotated by 270 degrees that the
\* mapping moves, and that the 90 degree mapping of the same layout does not
\* bring back.
C21_Witness ==
    /\ rotation = 270
    /\ layout = <<2, 3>>
    /\ map_key = 1
    /\ map_physical = 5
    /\ physical_to_virtual(90, Rows, Cols, map_key) # map_physical

\* C22: a refresh hands one image to set_key_image for every key of the deck,
\* each to a physical key of its own; and when the deck is not blanked under the
\* quirk at the time of the call, a key without a button or with a placeholder
\* without icon hint gets the blank icon in the blank color without label, and a
\* key with a switch gets the on style when its state is true and the off style
\* otherwise.
C22_RefreshDrawsEveryKey ==
    [][ (pc["main"] = "u_write" /\ pc'["main"] # "u_write") =>
          LET k == upd["main"].key
              state == upd["main"].state
              style == upd["main"].style
          IN  /\ k = loop_i["main"]
              /\ pc'["main"] = "refresh" <=> k = KeyCount - 1
              /\ \A other \in 0..(KeyCount - 1) :
                    other # k => image_target(other) # image_target(k)
              /\ ~(blanked /\ brightness_quirk) =>
                    IF ~InRange(k) \/ buttons[k + 1] = "BlankButton"
                    THEN style = [icon |-> "Blank.png", label |-> "None",
                                  color |-> "#555555"]
                    ELSE buttons[k + 1] = "HomeAssistantButton" =>
                            /\ style.icon = IF state = "True" THEN "On.png" ELSE "Off.png"
                            /\ style.color = IF state = "True" THEN "#FFFFFF"
                                             ELSE "#777777" ]_vars

\* C23: in every reachable state, self.__blanked is true only when the timeout
\* is enabled and more than the timeout has passed since self.__lastbutton.
C23_BlankedOnlyPastTimeout ==
    blanked => (timeout > 0 /\ idle > timeout)

\* C24: every service a press callback has requested of a switch matches the
\* value it handed to the state setter: turn_on for true, turn_off for false.
C24_ServiceMatchesNewState ==
    \A i \in DOMAIN cb.setter :
        LET newstate == cb.setter[i][2]
            service == cb.setter[i][3]
        IN  service # "pass" =>
                /\ service = "turn_on" <=> newstate = "True"
                /\ service = "turn_off" <=> newstate = "False"

\* A step in which no press arrives, the remote states do not change, and no
\* device call fails.
C25_Calm ==
    /\ ~(pc["cb"] = "idle" /\ pc'["cb"] # "idle")
    /\ remote' = remote
    /\ \A t \in Threads :
          (pc[t] = "u_write" /\ pc'[t] # "u_write") =>
              deck_images'[image_target(upd[t].key)] = upd[t].style
    /\ pc'["main"] = "crashed" => pc["main"] = "crashed"
    /\ pc'["cb"] = "dead" => pc["cb"] = "dead"

\* Every key with a switch shows the image of the switch's remote state, and
\* its entry of self.__states is that state.
C25_Shown ==
    /\ buttons # <<>>
    /\ \A k \in DOMAIN remote :
          /\ states_get(k) = remote[k]
          /\ deck_images[image_target(k)].icon =
                IF remote[k] = "True" THEN "On.png" ELSE "Off.png"
          /\ deck_images[image_target(k)].color =
                IF remote[k] = "True" THEN "#FFFFFF" ELSE "#777777"

\* C25: if from some point on no press arrives, the remote states stop
\* changing, remote reads and device calls succeed and the deck is not blanked
\* under the quirk, and the process is not interrupted, then with both threads
\* scheduled fairly every key with a switch eventually shows, and keeps
\* showing, the image of its remote state, with that state in self.__states.
C25_RefreshRepairs ==
    (/\ <>[][C25_Calm]_vars
     /\ <>[](\A k \in DOMAIN remote : remote[k] # "None")
     /\ <>[]~(blanked /\ brightness_quirk)
     /\ []~closed)
    => <>[]C25_Shown

\* C26: once the key callback is registered with the device, the configured
\* brightness, the glyph mapping, the glyph font, the button list and the cached
\* states are assigned, and no callback has met a field that is not.
C26_FieldsBeforeCallback ==
    /\ new.registered =>
          {"brightness", "mdi_mapping", "mdi_font", "buttons", "states"}
              \subseteq new.assigned
    /\ new.callback # "attribute_error"

====
